---- MODULE Spec2Model ----
(***************************************************************************)
(* Gate widgets of the PLONK proof system: the lookup widget               *)
(* (plonk-core/src/proof_system/widget/lookup.rs) and the verifier key of  *)
(* the curve addition widget                                               *)
(* (src/proof_system/widget/ecc/curve_addition/verifierkey.rs).            *)
(*                                                                         *)
(* The widgets are pure functions over a prime field F.  The field is the  *)
(* prime field of FieldP elements; every operation below is computed       *)
(* modulo FieldP, step by step as the Rust code computes it.  Rust's       *)
(* 0-based slices are sequences read through At(s, i) = s[i + 1].          *)
(***************************************************************************)
EXTENDS Integers, Sequences, FiniteSets, TLC

\* ------------------------------------------------------------------ field

\* The modulus of the prime field standing for `F: PrimeField`.
FieldP == 5

F == 0 .. (FieldP - 1)

zero == 0
one == 1 % FieldP

add(a, b) == (a + b) % FieldP
sub(a, b) == (a + FieldP - b) % FieldP
mul(a, b) == (a * b) % FieldP
neg(a) == (FieldP - a) % FieldP
square(a) == (a * a) % FieldP

\* <F::FftParams as FftParameters>::TWO_ADICITY: the largest s with
\* 2^s dividing FieldP - 1.
RECURSIVE Adicity(_)
Adicity(m) == IF m % 2 = 0 /\ m > 0 THEN 1 + Adicity(m \div 2) ELSE 0

TWO_ADICITY == Adicity(FieldP - 1)

\* ---------------------------------------------------------------- slices

At(s, i) == s[i + 1]
InBounds(s, i) == i >= 0 /\ i < Len(s)

\* ------------------------------------------------------ linear combination

\* util::lc: for values [v_0, ..., v_k] and a challenge, the value
\* v_0 + challenge * v_1 + ... + challenge^k * v_k.
RECURSIVE lc(_, _)
lc(values, challenge) ==
    IF values = <<>> THEN zero
    ELSE add(Head(values), mul(challenge, lc(Tail(values), challenge)))

\* ProverKey::compress with the row handed over last entry first.
compress_reversed(w_l, w_r, w_o, w_4, zeta) == lc(<<w_4, w_o, w_r, w_l>>, zeta)

\* ProverKey::compress with the row cut short: w_4 is dropped.
compress_drops_w4(w_l, w_r, w_o, w_4, zeta) == lc(<<w_l, w_r, w_o>>, zeta)

\* ProverKey::compress
compress(w_l, w_r, w_o, w_4, zeta) == lc(<<w_l, w_r, w_o, w_4>>, zeta)

\* ------------------------------------------------------------------ state

VARIABLES
    pc,            \* "ready": inputs chosen, "done": the operation returned
    prover_key,    \* lookup ProverKey: q_lookup (poly, evals), table_1..table_4
    verifier_key,  \* lookup VerifierKey: q_lookup commitment
    ecc_key,       \* curve addition VerifierKey: q_variable_group_add, COEFF_D
    args,          \* the arguments of the call
    ret,           \* the value returned by the call
    scalars,       \* the verifier's &mut Vec<F>
    points,        \* the verifier's &mut Vec<Commitment>
    calls,         \* how many times compute_quotient_i / the verifier has run
    reads          \* how many elements of the evaluation slices have been read

vars == <<pc, prover_key, verifier_key, ecc_key, args, ret, scalars, points, calls, reads>>

NoKey == [none |-> TRUE]
NoRet == [tag |-> "none"]

\* ------------------------------------------------------- row compression

InitCompress ==
    /\ pc = "ready"
    /\ args \in [w_l : F, w_r : F, w_o : F, w_4 : F, zeta : F]
    /\ ret = NoRet
    /\ prover_key = NoKey /\ verifier_key = NoKey /\ ecc_key = NoKey
    /\ scalars = <<>> /\ points = <<>> /\ calls = 0 /\ reads = 0

CallCompress ==
    /\ pc = "ready"
    /\ ret' = [tag |-> "value",
               value |-> compress(args.w_l, args.w_r, args.w_o, args.w_4, args.zeta)]
    /\ pc' = "done"
    /\ UNCHANGED <<prover_key, verifier_key, ecc_key, args, scalars, points, calls, reads>>

SpecCompress == InitCompress /\ [][CallCompress]_vars

\* Row compression (C8): compress returns w0 + zeta*w1 + zeta^2*w2 + zeta^3*w3
\* for every input, zeta = 0 included, where it returns w0; and for fixed zeta
\* it is affine in each input: adding dv to input k adds zeta^k * dv.
CompressRowCombination ==
    pc = "done" =>
        /\ ret.tag = "value"
        /\ ret.value = (args.w_l + args.zeta * args.w_r
                        + args.zeta * args.zeta * args.w_o
                        + args.zeta * args.zeta * args.zeta * args.w_4) % FieldP
        /\ (args.zeta = 0 => ret.value = args.w_l)
        /\ \A dv \in F :
            /\ compress(add(args.w_l, dv), args.w_r, args.w_o, args.w_4, args.zeta)
                 = (ret.value + dv) % FieldP
            /\ compress(args.w_l, add(args.w_r, dv), args.w_o, args.w_4, args.zeta)
                 = (ret.value + args.zeta * dv) % FieldP
            /\ compress(args.w_l, args.w_r, add(args.w_o, dv), args.w_4, args.zeta)
                 = (ret.value + args.zeta * args.zeta * dv) % FieldP
            /\ compress(args.w_l, args.w_r, args.w_o, add(args.w_4, dv), args.zeta)
                 = (ret.value + args.zeta * args.zeta * args.zeta * dv) % FieldP

\* A row whose last three entries are nonzero was compressed at zeta = 0.
CompressAtZeroChallenge ==
    /\ pc = "done"
    /\ args.zeta = 0
    /\ args.w_r # 0 /\ args.w_o # 0 /\ args.w_4 # 0
    /\ ret = [tag |-> "value", value |-> args.w_l]

\* ------------------------------------------------- lookup: quotient term

\* ProverKey::compute_quotient_i with the sign of the h1/h2 product lost.
compute_quotient_i_c_not_negated(key, index, p) ==
    LET q_lookup_i == At(key.q_lookup.evals, index)
        compressed_tuple == compress(p.w_l_i, p.w_r_i, p.w_o_i, p.w_4_i, p.zeta)
        lookup_sep_sq == square(p.lookup_sep)
        lookup_sep_cu == mul(lookup_sep_sq, p.lookup_sep)
        one_plus_delta == add(p.delta, one)
        epsilon_one_plus_delta == mul(p.epsilon, one_plus_delta)
        a == mul(mul(q_lookup_i, sub(compressed_tuple, p.f_i)), p.lookup_sep)
        b_1 == add(p.epsilon, p.f_i)
        b_2 == add(add(epsilon_one_plus_delta, p.table_i), mul(p.delta, p.table_i_next))
        b == mul(mul(mul(mul(p.z2_i, one_plus_delta), b_1), b_2), lookup_sep_sq)
        c_1 == add(add(epsilon_one_plus_delta, p.h1_i), mul(p.delta, p.h2_i))
        c_2 == add(add(epsilon_one_plus_delta, p.h2_i), mul(p.delta, p.h1_i_next))
        c == mul(mul(mul(p.z2_i_next, c_1), c_2), lookup_sep_sq)
        d == mul(mul(sub(p.z2_i, one), p.l1_i), lookup_sep_cu)
    IN  add(add(add(a, b), c), d)

\* ProverKey::compute_quotient_i with the boundary term z2 * L1 in place of
\* (z2 - 1) * L1.
compute_quotient_i_boundary_without_one(key, index, p) ==
    LET q_lookup_i == At(key.q_lookup.evals, index)
        compressed_tuple == compress(p.w_l_i, p.w_r_i, p.w_o_i, p.w_4_i, p.zeta)
        lookup_sep_sq == square(p.lookup_sep)
        lookup_sep_cu == mul(lookup_sep_sq, p.lookup_sep)
        one_plus_delta == add(p.delta, one)
        epsilon_one_plus_delta == mul(p.epsilon, one_plus_delta)
        a == mul(mul(q_lookup_i, sub(compressed_tuple, p.f_i)), p.lookup_sep)
        b_1 == add(p.epsilon, p.f_i)
        b_2 == add(add(epsilon_one_plus_delta, p.table_i), mul(p.delta, p.table_i_next))
        b == mul(mul(mul(mul(p.z2_i, one_plus_delta), b_1), b_2), lookup_sep_sq)
        c_1 == add(add(epsilon_one_plus_delta, p.h1_i), mul(p.delta, p.h2_i))
        c_2 == add(add(epsilon_one_plus_delta, p.h2_i), mul(p.delta, p.h1_i_next))
        c == mul(mul(mul(neg(p.z2_i_next), c_1), c_2), lookup_sep_sq)
        d == mul(mul(p.z2_i, p.l1_i), lookup_sep_cu)
    IN  add(add(add(a, b), c), d)

\* ProverKey::compute_quotient_i.  p holds the evaluations and challenges the
\* function takes after `index`, under the names of its parameters.
compute_quotient_i(key, index, p) ==
    LET q_lookup_i == At(key.q_lookup.evals, index)
        compressed_tuple == compress(p.w_l_i, p.w_r_i, p.w_o_i, p.w_4_i, p.zeta)
        lookup_sep_sq == square(p.lookup_sep)
        lookup_sep_cu == mul(lookup_sep_sq, p.lookup_sep)
        one_plus_delta == add(p.delta, one)
        epsilon_one_plus_delta == mul(p.epsilon, one_plus_delta)
        a == mul(mul(q_lookup_i, sub(compressed_tuple, p.f_i)), p.lookup_sep)
        b_1 == add(p.epsilon, p.f_i)
        b_2 == add(add(epsilon_one_plus_delta, p.table_i), mul(p.delta, p.table_i_next))
        b == mul(mul(mul(mul(p.z2_i, one_plus_delta), b_1), b_2), lookup_sep_sq)
        c_1 == add(add(epsilon_one_plus_delta, p.h1_i), mul(p.delta, p.h2_i))
        c_2 == add(add(epsilon_one_plus_delta, p.h2_i), mul(p.delta, p.h1_i_next))
        c == mul(mul(mul(neg(p.z2_i_next), c_1), c_2), lookup_sep_sq)
        d == mul(mul(sub(p.z2_i, one), p.l1_i), lookup_sep_cu)
    IN  add(add(add(a, b), c), d)

\* The lookup ProverKey: the selector in coefficient and in evaluation form,
\* and the four columns of the table.
ProverKeyOf(poly, evals, t1) ==
    [q_lookup |-> [poly |-> poly, evals |-> evals],
     table_1 |-> t1, table_2 |-> <<2>>, table_3 |-> <<3>>, table_4 |-> <<4>>]

\* The inputs compute_quotient_i is called on: every index of a four-point
\* selector table, and for each evaluation and challenge two or three field elements.
QuotientPoints ==
    [w_l_i : {0, 1}, w_r_i : {0, 2}, w_o_i : {1, 4}, w_4_i : {0, 3},
     f_i : {0, 2}, table_i : {1, 4}, table_i_next : {0, 3},
     h1_i : {1, 2}, h1_i_next : {3}, h2_i : {0, 4},
     z2_i : {1, 3}, z2_i_next : {2, 1}, l1_i : {0, 1},
     delta : {1, 2, 4}, epsilon : {4, 3}, zeta : {0, 1, 2}, lookup_sep : {0, 1, 3}]

InitQuotientI ==
    /\ pc = "ready"
    /\ \E t1 \in {<<>>, <<1, 2>>} :
         prover_key = ProverKeyOf(<<1, 1>>, <<0, 1, 2, 4>>, t1)
    /\ \E index \in 0 .. 3, p \in QuotientPoints :
         args = [index |-> index, p |-> p]
    /\ ret = NoRet
    /\ verifier_key = NoKey /\ ecc_key = NoKey
    /\ scalars = <<>> /\ points = <<>> /\ calls = 0 /\ reads = 0

CallQuotientI ==
    /\ pc = "ready"
    /\ ret' = [tag |-> "value",
               value |-> compute_quotient_i(prover_key, args.index, args.p)]
    /\ calls' = calls + 1
    /\ pc' = "done"
    /\ UNCHANGED <<prover_key, verifier_key, ecc_key, args, scalars, points, reads>>

SpecQuotientI == InitQuotientI /\ [][CallQuotientI]_vars

\* The selector value and the two sides of the grand-product relation at the
\* point of the call, in integer arithmetic.
SelectorAtCall == At(prover_key.q_lookup.evals, args.index)

CompressedRowAtCall ==
    LET p == args.p
    IN  p.w_l_i + p.zeta * p.w_r_i + p.zeta * p.zeta * p.w_o_i
          + p.zeta * p.zeta * p.zeta * p.w_4_i

TableSideAtCall ==
    LET p == args.p
    IN  p.z2_i * (1 + p.delta) * (p.epsilon + p.f_i)
          * (p.epsilon * (1 + p.delta) + p.table_i + p.delta * p.table_i_next)

SortedSideAtCall ==
    LET p == args.p
    IN  p.z2_i_next
          * (p.epsilon * (1 + p.delta) + p.h1_i + p.delta * p.h2_i)
          * (p.epsilon * (1 + p.delta) + p.h2_i + p.delta * p.h1_i_next)

\* Quotient term (C1): compute_quotient_i returns
\*   alpha * q * (compress(wires, zeta) - f)
\*   + alpha^2 * z2 * (1+delta) * (eps+f) * (eps(1+delta) + t + delta * t_next)
\*   - alpha^2 * z2_next * (eps(1+delta)+h1+delta*h2) * (eps(1+delta)+h2+delta*h1_next)
\*   + alpha^3 * (z2 - 1) * L1
\* with alpha = lookup_sep and q = q_lookup.1[index], whatever table_1 .. table_4 hold.
QuotientTermFormula ==
    pc = "done" =>
        LET p == args.p
            alpha == p.lookup_sep
        IN  /\ ret.tag = "value"
            /\ ret.value =
                 (alpha * SelectorAtCall * (CompressedRowAtCall - p.f_i)
                  + alpha * alpha * TableSideAtCall
                  - alpha * alpha * SortedSideAtCall
                  + alpha * alpha * alpha * (p.z2_i - 1) * p.l1_i) % FieldP

\* A call in which each of the four summands is nonzero, on a key with a
\* non-empty first table column.
QuotientTermAllSummandsLive ==
    /\ pc = "done"
    /\ prover_key.table_1 # <<>>
    /\ args.p.lookup_sep # 0
    /\ (SelectorAtCall * (CompressedRowAtCall - args.p.f_i)) % FieldP # 0
    /\ TableSideAtCall % FieldP # 0
    /\ SortedSideAtCall % FieldP # 0
    /\ ((args.p.z2_i - 1) * args.p.l1_i) % FieldP # 0
    /\ ret.value # 0

\* The three relations of a satisfying witness at the point of the call.
RelationsHoldAtCall ==
    /\ (SelectorAtCall * (CompressedRowAtCall - args.p.f_i)) % FieldP = 0
    /\ TableSideAtCall % FieldP = SortedSideAtCall % FieldP
    /\ ((args.p.z2_i - 1) * args.p.l1_i) % FieldP = 0

\* Zero on a satisfying witness (C3): when the selector relation, the
\* grand-product relation and the boundary relation hold of the inputs,
\* compute_quotient_i returns 0.
QuotientZeroOnSatisfyingWitness ==
    (pc = "done" /\ RelationsHoldAtCall) => ret = [tag |-> "value", value |-> 0]

\* The relations hold with nothing switched off: selector, separation
\* challenge, both sides of the grand product and L1 are nonzero.
SatisfyingWitnessCall ==
    /\ pc = "done"
    /\ RelationsHoldAtCall
    /\ SelectorAtCall # 0
    /\ args.p.lookup_sep # 0
    /\ TableSideAtCall % FieldP # 0
    /\ args.p.l1_i # 0
    /\ ret.value = 0

WireNames == {"w_l_i", "w_r_i", "w_o_i", "w_4_i"}

\* Nonzero on violation (C10): from inputs on which compute_quotient_i
\* returns 0, with q_lookup[index], lookup_sep and zeta nonzero, replacing one
\* wire value by a different field element makes it return a nonzero value.
QuotientNonzeroOnWireChange ==
    (/\ pc = "done"
     /\ ret.value = 0
     /\ SelectorAtCall # 0
     /\ args.p.lookup_sep # 0
     /\ args.p.zeta # 0)
    => \A w \in WireNames : \A v \in F \ {args.p[w]} :
         compute_quotient_i(prover_key, args.index, [args.p EXCEPT ![w] = v]) # 0

\* A zero quotient term with selector, separation challenge and zeta nonzero
\* and a row with nonzero entries.
ZeroTermWithLiveSelector ==
    /\ pc = "done"
    /\ ret.value = 0
    /\ SelectorAtCall # 0
    /\ args.p.lookup_sep # 0
    /\ args.p.zeta \notin {0, 1}
    /\ args.p.w_4_i # 0
    /\ TableSideAtCall % FieldP # 0

\* --------------------------------- lookup: quotient term over the domain

\* How far the next-row slices (table, h1, z2) may extend past the 4n points
\* of the extended domain.
MaxPad == 4

RECURSIVE Pow2(_)
Pow2(k) == IF k = 0 THEN 1 ELSE 2 * Pow2(k - 1)

\* usize::trailing_zeros of a positive number.
RECURSIVE trailing_zeros(_)
trailing_zeros(m) == IF m % 2 = 0 /\ m > 0 THEN 1 + trailing_zeros(m \div 2) ELSE 0

\* The least k with 2^k >= m.
RECURSIVE Log2Ceil(_)
Log2Ceil(m) == IF m <= 1 THEN 0 ELSE 1 + Log2Ceil((m + 1) \div 2)

None == [tag |-> "None"]

\* GeneralEvaluationDomain::<F>::new(num_coeffs) as compute_lookup_quotient_term
\* uses it: the radix-2 domain of the next power of two, which exists when the
\* field has a multiplicative subgroup of that order, i.e. when its logarithm
\* does not exceed TWO_ADICITY.
NewDomain(num_coeffs) ==
    LET log_size_of_group == Log2Ceil(num_coeffs)
    IN  IF log_size_of_group > TWO_ADICITY THEN None
        ELSE [tag |-> "Some", size |-> Pow2(log_size_of_group)]

\* The slice reads of the closure at index i, in the order the arguments of
\* compute_quotient_i are evaluated.
RowReads(a, i) ==
    << <<a.wl_eval_4n, i>>, <<a.wr_eval_4n, i>>, <<a.wo_eval_4n, i>>,
       <<a.w4_eval_4n, i>>, <<a.f_eval_4n, i>>, <<a.table_eval_4n, i>>,
       <<a.table_eval_4n, i + 4>>, <<a.h1_eval_4n, i>>, <<a.h1_eval_4n, i + 4>>,
       <<a.h2_eval_4n, i>>, <<a.z2_eval_4n, i>>, <<a.z2_eval_4n, i + 4>>,
       <<a.l1_eval_4n, i>> >>

\* How many of the reads succeed before the first one out of bounds.
RECURSIVE ReadsDone(_)
ReadsDone(rs) ==
    IF rs = <<>> \/ ~InBounds(Head(rs)[1], Head(rs)[2]) THEN 0
    ELSE 1 + ReadsDone(Tail(rs))

\* The closure's arguments with the next row read one position on.
QuotientRow_next_is_i_plus_1(a, i) ==
    [w_l_i |-> At(a.wl_eval_4n, i), w_r_i |-> At(a.wr_eval_4n, i),
     w_o_i |-> At(a.wo_eval_4n, i), w_4_i |-> At(a.w4_eval_4n, i),
     f_i |-> At(a.f_eval_4n, i),
     table_i |-> At(a.table_eval_4n, i), table_i_next |-> At(a.table_eval_4n, i + 1),
     h1_i |-> At(a.h1_eval_4n, i), h1_i_next |-> At(a.h1_eval_4n, i + 1),
     h2_i |-> At(a.h2_eval_4n, i),
     z2_i |-> At(a.z2_eval_4n, i), z2_i_next |-> At(a.z2_eval_4n, i + 1),
     l1_i |-> At(a.l1_eval_4n, i),
     delta |-> a.delta, epsilon |-> a.epsilon, zeta |-> a.zeta,
     lookup_sep |-> a.lookup_sep]

\* The arguments the closure passes to compute_quotient_i at index i.
QuotientRow(a, i) ==
    [w_l_i |-> At(a.wl_eval_4n, i), w_r_i |-> At(a.wr_eval_4n, i),
     w_o_i |-> At(a.wo_eval_4n, i), w_4_i |-> At(a.w4_eval_4n, i),
     f_i |-> At(a.f_eval_4n, i),
     table_i |-> At(a.table_eval_4n, i), table_i_next |-> At(a.table_eval_4n, i + 4),
     h1_i |-> At(a.h1_eval_4n, i), h1_i_next |-> At(a.h1_eval_4n, i + 4),
     h2_i |-> At(a.h2_eval_4n, i),
     z2_i |-> At(a.z2_eval_4n, i), z2_i_next |-> At(a.z2_eval_4n, i + 4),
     l1_i |-> At(a.l1_eval_4n, i),
     delta |-> a.delta, epsilon |-> a.epsilon, zeta |-> a.zeta,
     lookup_sep |-> a.lookup_sep]

\* (0..domain_4n.size()).map(|i| ...).collect(): the indices in order; a read
\* out of bounds panics and ends the call.
RECURSIVE MapCollect(_, _, _, _, _, _)
MapCollect(key, a, size, i, acc, nreads) ==
    IF i = size THEN [tag |-> "Ok", value |-> acc, calls |-> i, reads |-> nreads]
    ELSE IF ReadsDone(RowReads(a, i)) < Len(RowReads(a, i))
    THEN [tag |-> "panic", index |-> i, calls |-> i,
          reads |-> nreads + ReadsDone(RowReads(a, i))]
    ELSE IF ~InBounds(key.q_lookup.evals, i)
    THEN [tag |-> "panic", index |-> i, calls |-> i + 1,
          reads |-> nreads + Len(RowReads(a, i))]
    ELSE MapCollect(key, a, size, i + 1,
                    Append(acc, compute_quotient_i(key, i, QuotientRow(a, i))),
                    nreads + Len(RowReads(a, i)))

\* compute_lookup_quotient_term running the per-point map over 4 * domain.size()
\* indices before it looks at the result of the domain construction.
compute_lookup_quotient_term_maps_first(key, a) ==
    LET domain_4n == NewDomain(4 * a.domain.size)
        mapped == MapCollect(key, a, 4 * a.domain.size, 0, <<>>, 0)
    IN  IF mapped.tag = "panic" THEN mapped
        ELSE IF domain_4n = None
        THEN [tag |-> "Err",
              error |-> [kind |-> "InvalidEvalDomainSize",
                         log_size_of_group |-> trailing_zeros(4 * a.domain.size),
                         adicity |-> TWO_ADICITY],
              calls |-> mapped.calls, reads |-> mapped.reads]
        ELSE mapped

\* ProverKey::compute_lookup_quotient_term
compute_lookup_quotient_term(key, a) ==
    LET domain_4n == NewDomain(4 * a.domain.size)
    IN  IF domain_4n = None
        THEN [tag |-> "Err",
              error |-> [kind |-> "InvalidEvalDomainSize",
                         log_size_of_group |-> trailing_zeros(4 * a.domain.size),
                         adicity |-> TWO_ADICITY],
              calls |-> 0, reads |-> 0]
        ELSE MapCollect(key, a, domain_4n.size, 0, <<>>, 0)

\* An evaluation slice of the given length: j |-> slope * j + start.
Ramp(len, slope, start) == [j \in 1 .. len |-> (slope * (j - 1) + start) % FieldP]

\* The domains the field supports: the powers of two up to 2^TWO_ADICITY.
DomainSizes == {Pow2(k) : k \in 0 .. TWO_ADICITY}

InitQuotientTerm ==
    /\ pc = "ready"
    /\ \E n \in DomainSizes, pad \in 0 .. MaxPad,
          wl \in {<<1, 0>>, <<2, 3>>}, wr \in {<<0, 2>>, <<1, 1>>},
          wo \in {<<3, 1>>}, w4 \in {<<0, 0>>, <<4, 2>>},
          ff \in {<<1, 2>>, <<0, 1>>}, tt \in {<<1, 1>>, <<2, 0>>},
          h1 \in {<<1, 0>>, <<3, 2>>}, h2 \in {<<2, 4>>, <<1, 3>>},
          z2 \in {<<0, 1>>, <<1, 2>>}, l1 \in {<<0, 1>>, <<4, 0>>},
          delta \in {1, 2}, epsilon \in {3, 4}, zeta \in {2, 3}, lookup_sep \in {1, 3} :
         /\ prover_key = ProverKeyOf(<<1, 1>>, Ramp(4 * n, 1, 1), <<1, 2>>)
         /\ args = [domain |-> [size |-> n],
                    wl_eval_4n |-> Ramp(4 * n, wl[1], wl[2]),
                    wr_eval_4n |-> Ramp(4 * n, wr[1], wr[2]),
                    wo_eval_4n |-> Ramp(4 * n, wo[1], wo[2]),
                    w4_eval_4n |-> Ramp(4 * n, w4[1], w4[2]),
                    f_eval_4n |-> Ramp(4 * n, ff[1], ff[2]),
                    table_eval_4n |-> Ramp(4 * n + pad, tt[1], tt[2]),
                    h1_eval_4n |-> Ramp(4 * n + pad, h1[1], h1[2]),
                    h2_eval_4n |-> Ramp(4 * n, h2[1], h2[2]),
                    z2_eval_4n |-> Ramp(4 * n + pad, z2[1], z2[2]),
                    l1_eval_4n |-> Ramp(4 * n, l1[1], l1[2]),
                    delta |-> delta, epsilon |-> epsilon, zeta |-> zeta,
                    lookup_sep |-> lookup_sep]
    /\ ret = NoRet
    /\ verifier_key = NoKey /\ ecc_key = NoKey
    /\ scalars = <<>> /\ points = <<>> /\ calls = 0 /\ reads = 0

CallQuotientTerm ==
    /\ pc = "ready"
    /\ LET r == compute_lookup_quotient_term(prover_key, args)
       IN  /\ ret' = IF r.tag = "Ok" THEN [tag |-> "Ok", value |-> r.value]
                     ELSE IF r.tag = "Err" THEN [tag |-> "Err", error |-> r.error]
                     ELSE [tag |-> "panic", index |-> r.index]
           /\ calls' = calls + r.calls
           /\ reads' = reads + r.reads
    /\ pc' = "done"
    /\ UNCHANGED <<prover_key, verifier_key, ecc_key, args, scalars, points>>

SpecQuotientTerm == InitQuotientTerm /\ [][CallQuotientTerm]_vars

\* The number of points of the extended domain the call asks for.
ExtendedSize == 4 * args.domain.size

\* Domain construction error (C5): when no domain of 4 * domain.size()
\* points exists in the field, compute_lookup_quotient_term returns
\* InvalidEvalDomainSize with log_size_of_group = trailing_zeros(4 * domain.size())
\* and the field's two-adicity, having read no slice element and called
\* compute_quotient_i not once, and returns no vector.
DomainErrorBeforePointWork ==
    (pc = "done" /\ \A k \in 0 .. TWO_ADICITY : Pow2(k) < ExtendedSize) =>
        /\ ret.tag = "Err"
        /\ DOMAIN ret = {"tag", "error"}
        /\ ret.error.kind = "InvalidEvalDomainSize"
        /\ ExtendedSize % Pow2(ret.error.log_size_of_group) = 0
        /\ ExtendedSize % Pow2(ret.error.log_size_of_group + 1) # 0
        /\ \A s \in 0 .. ret.error.adicity : (FieldP - 1) % Pow2(s) = 0
        /\ (FieldP - 1) % Pow2(ret.error.adicity + 1) # 0
        /\ calls = 0
        /\ reads = 0

\* The call returned after asking for a domain the field does not have, with
\* slices long enough for every read.
DomainErrorReturned ==
    /\ pc = "done"
    /\ ExtendedSize > Pow2(TWO_ADICITY)
    /\ Len(args.table_eval_4n) = ExtendedSize + 4
    /\ ret.tag = "Err"

\* Every slice and the selector table hold one value per point of the
\* extended domain.
SlicesHoldOneValuePerPoint ==
    /\ \A f \in {"wl_eval_4n", "wr_eval_4n", "wo_eval_4n", "w4_eval_4n", "f_eval_4n",
                 "table_eval_4n", "h1_eval_4n", "h2_eval_4n", "z2_eval_4n",
                 "l1_eval_4n"} : Len(args[f]) = ExtendedSize
    /\ Len(prover_key.q_lookup.evals) = ExtendedSize

\* No other failure (C6): when the extended domain exists and every slice and
\* the selector table have length 4n, the call returns Ok with 4n values and
\* panics at no index.
TermInfallibleOnExtendedDomainSlices ==
    (/\ pc = "done"
     /\ \E k \in 0 .. TWO_ADICITY : Pow2(k) = ExtendedSize
     /\ SlicesHoldOneValuePerPoint)
    => /\ ret.tag = "Ok"
       /\ Len(ret.value) = ExtendedSize

\* Quotient term over the domain (C9): on success the result has 4n values
\* and its element i is compute_quotient_i of the values at i of every slice
\* and the values at i + 4 of table, h1 and z2.
TermIsPointwiseWithNextRowAtPlus4 ==
    (pc = "done" /\ ret.tag = "Ok") =>
        /\ Len(ret.value) = ExtendedSize
        /\ \A i \in 0 .. ExtendedSize - 1 :
             At(ret.value, i) =
               compute_quotient_i(prover_key, i,
                 [w_l_i |-> args.wl_eval_4n[i + 1], w_r_i |-> args.wr_eval_4n[i + 1],
                  w_o_i |-> args.wo_eval_4n[i + 1], w_4_i |-> args.w4_eval_4n[i + 1],
                  f_i |-> args.f_eval_4n[i + 1],
                  table_i |-> args.table_eval_4n[i + 1],
                  table_i_next |-> args.table_eval_4n[i + 5],
                  h1_i |-> args.h1_eval_4n[i + 1],
                  h1_i_next |-> args.h1_eval_4n[i + 5],
                  h2_i |-> args.h2_eval_4n[i + 1],
                  z2_i |-> args.z2_eval_4n[i + 1],
                  z2_i_next |-> args.z2_eval_4n[i + 5],
                  l1_i |-> args.l1_eval_4n[i + 1],
                  delta |-> args.delta, epsilon |-> args.epsilon,
                  zeta |-> args.zeta, lookup_sep |-> args.lookup_sep])

\* A successful call whose table, h1 and z2 slices are not constant, so that
\* the rows at i + 1, i + 4 and i + 4 - 4n differ.
TermReturnedWithVaryingNextRows ==
    /\ pc = "done"
    /\ ret.tag = "Ok"
    /\ Len(ret.value) = ExtendedSize
    /\ args.table_eval_4n[2] # args.table_eval_4n[5]
    /\ args.h1_eval_4n[1] # args.h1_eval_4n[5]
    /\ args.z2_eval_4n[2] # args.z2_eval_4n[5]
    /\ \E i \in 1 .. Len(ret.value) : ret.value[i] # 0
    /\ calls = ExtendedSize

\* ---------------------------------------------------- lookup: linearisation

\* How many times the verifier's routine runs on the same pair of lists.
MaxCalls == 2

\* DensePolynomial<F>: the coefficients, constant term first, with no
\* trailing zero coefficient.
RECURSIVE Truncate(_)
Truncate(p) ==
    IF p # <<>> /\ p[Len(p)] = zero THEN Truncate(SubSeq(p, 1, Len(p) - 1)) ELSE p

\* &DensePolynomial * F
PolyScale(p, c) ==
    IF p = <<>> \/ c = zero THEN <<>> ELSE [i \in 1 .. Len(p) |-> mul(p[i], c)]

\* DensePolynomial + DensePolynomial
PolyAdd(p, q) ==
    LET n == IF Len(p) > Len(q) THEN Len(p) ELSE Len(q)
        coeff(r, i) == IF i <= Len(r) THEN r[i] ELSE zero
    IN  Truncate([i \in 1 .. n |-> add(coeff(p, i), coeff(q, i))])

\* ProverKey::compute_linearisation.  e holds the evaluations and challenges
\* under the names of the parameters.
compute_linearisation(key, e, z2_poly, h1_poly) ==
    LET a_0 == compress(e.a_eval, e.b_eval, e.c_eval, e.d_eval, e.zeta)
        a == PolyScale(key.q_lookup.poly,
                       mul(sub(a_0, e.f_eval), e.lookup_separation_challenge))
        lookup_sep_sq == square(e.lookup_separation_challenge)
        lookup_sep_cu == mul(e.lookup_separation_challenge, lookup_sep_sq)
        one_plus_delta == add(e.delta, one)
        epsilon_one_plus_delta == mul(e.epsilon, one_plus_delta)
        b_0 == add(e.epsilon, e.f_eval)
        b_1 == add(add(epsilon_one_plus_delta, e.table_eval),
                   mul(e.delta, e.table_next_eval))
        b == PolyScale(z2_poly, mul(mul(mul(one_plus_delta, b_0), b_1), lookup_sep_sq))
        c_0 == mul(neg(e.z2_next_eval), lookup_sep_sq)
        c_1 == add(add(epsilon_one_plus_delta, e.h2_eval), mul(e.delta, e.h1_eval))
        c == PolyScale(h1_poly, mul(c_0, c_1))
        d == PolyScale(z2_poly, mul(e.l1_eval, lookup_sep_cu))
    IN  PolyAdd(PolyAdd(PolyAdd(a, b), c), d)

\* The three scalars VerifierKey::compute_linearisation_commitment computes,
\* in the order it pushes them: f, z, w.
linearisation_scalars(evaluations, challenges, l1_eval) ==
    LET delta == challenges[1]
        epsilon == challenges[2]
        zeta == challenges[3]
        q_lookup_eval == evaluations.lookup_evals.q_lookup_eval
        f == mul(q_lookup_eval,
                 sub(lc(<<evaluations.wire_evals.a_eval, evaluations.wire_evals.b_eval,
                          evaluations.wire_evals.c_eval, evaluations.wire_evals.d_eval>>,
                        zeta),
                     evaluations.lookup_evals.f_eval))
        one_plus_delta == add(one, delta)
        epsilon_one_plus_delta == mul(epsilon, one_plus_delta)
        q_lookup_eval_sq == square(q_lookup_eval)
        q_lookup_eval_cu == mul(q_lookup_eval_sq, q_lookup_eval)
        z_0 == add(epsilon, evaluations.lookup_evals.f_eval)
        z_1 == add(add(epsilon_one_plus_delta, evaluations.lookup_evals.table_eval),
                   mul(delta, evaluations.lookup_evals.table_next_eval))
        z_2 == mul(l1_eval, q_lookup_eval_cu)
        z == add(mul(mul(mul(one_plus_delta, z_0), z_1), q_lookup_eval_sq), z_2)
        w_0 == mul(neg(evaluations.lookup_evals.z2_next_eval), q_lookup_eval_cu)
        w_1 == add(add(epsilon_one_plus_delta, evaluations.lookup_evals.h2_eval),
                   mul(delta, evaluations.lookup_evals.h1_eval))
        w == mul(w_0, w_1)
    IN  <<f, z, w>>

\* VerifierKey::compute_linearisation_commitment pushing the commitment of z2
\* with the first scalar and the key's own commitment with the second.
compute_linearisation_commitment_points_swapped(vk, lists, evaluations, challenges, l1_eval, z2_comm, h1_comm) ==
    [scalars |-> lists.scalars \o linearisation_scalars(evaluations, challenges, l1_eval),
     points |-> lists.points \o <<z2_comm, vk.q_lookup, h1_comm>>]

\* lookup VerifierKey::compute_linearisation_commitment.  lists holds the two
\* vectors the function appends to; the result is the two vectors after its
\* six pushes.
compute_linearisation_commitment(vk, lists, evaluations, challenges, l1_eval, z2_comm, h1_comm) ==
    LET fzw == linearisation_scalars(evaluations, challenges, l1_eval)
        scalars_1 == Append(lists.scalars, fzw[1])
        points_1 == Append(lists.points, vk.q_lookup)
        scalars_2 == Append(scalars_1, fzw[2])
        points_2 == Append(points_1, z2_comm)
    IN  [scalars |-> Append(scalars_2, fzw[3]), points |-> Append(points_2, h1_comm)]

\* The commitments handed to the verifier.
Commitments == {"comm_1", "comm_2"}

\* The proof's evaluations the linearisation routines are run on.
ProofEvaluationsSample ==
    [wire_evals : [a_eval : {1, 2}, b_eval : {3}, c_eval : {1}, d_eval : {2}],
     lookup_evals : [q_lookup_eval : {0, 1, 2}, f_eval : {0, 4},
                     table_eval : {1}, table_next_eval : {3},
                     h1_eval : {1, 4}, h2_eval : {2}, z2_next_eval : {0, 3}]]

InitLinearisation ==
    /\ pc = "ready"
    /\ prover_key = ProverKeyOf(<<2, 1>>, <<0, 1, 2, 4>>, <<1, 2>>)
    /\ verifier_key = [q_lookup |-> "comm_q_lookup"]
    /\ \E evaluations \in ProofEvaluationsSample,
          delta \in {1, 4}, epsilon \in {2}, zeta \in {2, 3}, l1_eval \in {0, 1},
          lookup_separation_challenge \in {1, 2},
          h1_poly \in {<<1, 3>>},
          before \in {[scalars |-> <<>>, points |-> <<>>],
                      [scalars |-> <<3>>, points |-> <<"comm_0">>],
                      [scalars |-> <<3, 0>>, points |-> <<"comm_0">>]} :
         args = [evaluations |-> evaluations,
                 delta |-> delta, epsilon |-> epsilon, zeta |-> zeta,
                 l1_eval |-> l1_eval,
                 lookup_separation_challenge |-> lookup_separation_challenge,
                 z2_poly |-> <<1, 2, 1>>, h1_poly |-> h1_poly,
                 z2_comm |-> "comm_1", h1_comm |-> "comm_2",
                 before |-> before]
    /\ scalars = args.before.scalars
    /\ points = args.before.points
    /\ ret = NoRet
    /\ ecc_key = NoKey
    /\ calls = 0 /\ reads = 0

\* The prover computes the lookup part of the linearisation polynomial.
CallLinearisation ==
    /\ pc = "ready"
    /\ LET ev == args.evaluations
       IN  ret' = [tag |-> "value",
                   value |-> compute_linearisation(prover_key,
                     [l1_eval |-> args.l1_eval,
                      a_eval |-> ev.wire_evals.a_eval, b_eval |-> ev.wire_evals.b_eval,
                      c_eval |-> ev.wire_evals.c_eval, d_eval |-> ev.wire_evals.d_eval,
                      f_eval |-> ev.lookup_evals.f_eval,
                      table_eval |-> ev.lookup_evals.table_eval,
                      table_next_eval |-> ev.lookup_evals.table_next_eval,
                      h1_eval |-> ev.lookup_evals.h1_eval,
                      h2_eval |-> ev.lookup_evals.h2_eval,
                      z2_next_eval |-> ev.lookup_evals.z2_next_eval,
                      delta |-> args.delta, epsilon |-> args.epsilon,
                      zeta |-> args.zeta,
                      lookup_separation_challenge |-> args.lookup_separation_challenge],
                     args.z2_poly, args.h1_poly)]
    /\ pc' = "done"
    /\ UNCHANGED <<prover_key, verifier_key, ecc_key, args, scalars, points, calls, reads>>

\* The verifier extends its lists, with the commitments of z2 and h1 it is
\* handed at this call.
CallLinearisationCommitment ==
    /\ calls < MaxCalls
    /\ \E z2_comm \in Commitments, h1_comm \in Commitments :
         LET after == compute_linearisation_commitment(
                        verifier_key, [scalars |-> scalars, points |-> points],
                        args.evaluations, <<args.delta, args.epsilon, args.zeta>>,
                        args.l1_eval, z2_comm, h1_comm)
         IN  /\ scalars' = after.scalars
             /\ points' = after.points
             /\ args' = [args EXCEPT !.z2_comm = z2_comm, !.h1_comm = h1_comm]
    /\ calls' = calls + 1
    /\ UNCHANGED <<pc, prover_key, verifier_key, ecc_key, ret, reads>>

NextLinearisation == CallLinearisation \/ CallLinearisationCommitment

SpecLinearisation == InitLinearisation /\ [][NextLinearisation]_vars

\* The value of a polynomial at a point, in integer arithmetic.
RECURSIVE PolyEval(_, _)
PolyEval(p, x) == IF p = <<>> THEN 0 ELSE Head(p) + x * PolyEval(Tail(p), x)

\* The three scalars the verifier's latest call appended.
LastScalars == SubSeq(scalars, Len(scalars) - 2, Len(scalars))

\* Linearisation / commitment agreement (C2): with the proof's q_lookup_eval
\* and the prover's lookup separation challenge the same value, the prover's
\* linearisation polynomial is, at every point x, the sum of the verifier's
\* three scalars times q_lookup(x), z2(x) and h1(x).
LinearisationAgreesWithCommitmentScalars ==
    (/\ pc = "done"
     /\ calls >= 1
     /\ args.evaluations.lookup_evals.q_lookup_eval = args.lookup_separation_challenge)
    => \A x \in F :
         PolyEval(ret.value, x) % FieldP =
           (LastScalars[1] * PolyEval(prover_key.q_lookup.poly, x)
            + LastScalars[2] * PolyEval(args.z2_poly, x)
            + LastScalars[3] * PolyEval(args.h1_poly, x)) % FieldP

\* The lists as they stood before the verifier's first call.
ScalarsBefore == args.before.scalars
PointsBefore == args.before.points

\* Frame of the verifier's routine (C4): a call keeps every entry of both
\* lists in place and appends three scalars and the three points q_lookup
\* commitment, z2_comm, h1_comm in this order; after k calls both lists are 3k
\* longer, and of equal length if they were before.
CommitmentAppendsThreePairs ==
    /\ [](/\ Len(scalars) = Len(ScalarsBefore) + 3 * calls
          /\ Len(points) = Len(PointsBefore) + 3 * calls
          /\ (Len(ScalarsBefore) = Len(PointsBefore) => Len(scalars) = Len(points)))
    /\ [][calls' = calls + 1 =>
            /\ Len(scalars') = Len(scalars) + 3
            /\ SubSeq(scalars', 1, Len(scalars)) = scalars
            /\ points' = points \o <<verifier_key.q_lookup, args'.z2_comm, args'.h1_comm>>
         ]_vars

\* Two calls on lists that were not empty, handed different commitments.
CommitmentCalledTwice ==
    /\ calls = 2
    /\ Len(ScalarsBefore) = 1 /\ Len(PointsBefore) = 1
    /\ Len(scalars) = 7 /\ Len(points) = 7
    /\ points[2] = points[5]
    /\ points[3] # points[6]
    /\ scalars[5] # 0

\* ------------------------------------------- curve addition: verifier key

\* curve addition VerifierKey::compute_linearisation_commitment with the
\* y_3 check built like the x_3 check: y_3 + y_3 * d * x1_y2 * y1_x2.
ecc_compute_linearisation_commitment_y3_sign(key, curve_add_separation_challenge, lists, evaluations) ==
    LET kappa == square(curve_add_separation_challenge)
        x_1 == evaluations.a_eval
        x_3 == evaluations.a_next_eval
        y_1 == evaluations.b_eval
        y_3 == evaluations.b_next_eval
        x_2 == evaluations.c_eval
        y_2 == evaluations.d_eval
        x1_y2 == evaluations.d_next_eval
        xy_consistency == sub(mul(x_1, y_2), x1_y2)
        y1_x2 == mul(y_1, x_2)
        y1_y2 == mul(y_1, y_2)
        x1_x2 == mul(x_1, x_2)
        x3_lhs == add(x1_y2, y1_x2)
        x3_rhs == add(x_3, mul(x_3, mul(mul(key.COEFF_D, x1_y2), y1_x2)))
        x3_consistency == mul(sub(x3_lhs, x3_rhs), kappa)
        y3_lhs == add(y1_y2, x1_x2)
        y3_rhs == add(y_3, mul(mul(mul(y_3, key.COEFF_D), x1_y2), y1_x2))
        y3_consistency == mul(sub(y3_lhs, y3_rhs), square(kappa))
        identity == add(add(xy_consistency, x3_consistency), y3_consistency)
    IN  [scalars |-> Append(lists.scalars, mul(identity, curve_add_separation_challenge)),
         points |-> Append(lists.points, key.q_variable_group_add[1])]

\* curve addition VerifierKey::compute_linearisation_commitment.  key holds
\* the selector commitment (a one-field tuple struct) and the curve's COEFF_D;
\* lists holds the two vectors, the result is the two vectors after the push.
ecc_compute_linearisation_commitment(key, curve_add_separation_challenge, lists, evaluations) ==
    LET kappa == square(curve_add_separation_challenge)
        x_1 == evaluations.a_eval
        x_3 == evaluations.a_next_eval
        y_1 == evaluations.b_eval
        y_3 == evaluations.b_next_eval
        x_2 == evaluations.c_eval
        y_2 == evaluations.d_eval
        x1_y2 == evaluations.d_next_eval
        xy_consistency == sub(mul(x_1, y_2), x1_y2)
        y1_x2 == mul(y_1, x_2)
        y1_y2 == mul(y_1, y_2)
        x1_x2 == mul(x_1, x_2)
        x3_lhs == add(x1_y2, y1_x2)
        x3_rhs == add(x_3, mul(x_3, mul(mul(key.COEFF_D, x1_y2), y1_x2)))
        x3_consistency == mul(sub(x3_lhs, x3_rhs), kappa)
        y3_lhs == add(y1_y2, x1_x2)
        y3_rhs == sub(y_3, mul(mul(mul(y_3, key.COEFF_D), x1_y2), y1_x2))
        y3_consistency == mul(sub(y3_lhs, y3_rhs), square(kappa))
        identity == add(add(xy_consistency, x3_consistency), y3_consistency)
    IN  [scalars |-> Append(lists.scalars, mul(identity, curve_add_separation_challenge)),
         points |-> Append(lists.points, key.q_variable_group_add[1])]

InitCurveAdd ==
    /\ pc = "ready"
    /\ \E d \in {2, 3} :
         ecc_key = [q_variable_group_add |-> <<"point_q_variable_group_add">>,
                    COEFF_D |-> d]
    /\ \E evaluations \in [a_eval : F, b_eval : F, c_eval : F, d_eval : F,
                           a_next_eval : F, b_next_eval : F, d_next_eval : F],
          challenge \in {0, 2, 3},
          before \in {[scalars |-> <<>>, points |-> <<>>],
                      [scalars |-> <<3>>, points |-> <<"point_0">>]} :
         args = [curve_add_separation_challenge |-> challenge,
                 evaluations |-> evaluations, before |-> before]
    /\ scalars = args.before.scalars
    /\ points = args.before.points
    /\ ret = NoRet
    /\ prover_key = NoKey /\ verifier_key = NoKey
    /\ calls = 0 /\ reads = 0

CallCurveAddCommitment ==
    /\ pc = "ready"
    /\ LET after == ecc_compute_linearisation_commitment(
                      ecc_key, args.curve_add_separation_challenge,
                      [scalars |-> scalars, points |-> points], args.evaluations)
       IN  /\ scalars' = after.scalars
           /\ points' = after.points
    /\ calls' = calls + 1
    /\ pc' = "done"
    /\ UNCHANGED <<prover_key, verifier_key, ecc_key, args, ret, reads>>

SpecCurveAdd == InitCurveAdd /\ [][CallCurveAddCommitment]_vars

\* The three relations of the addition law on the call's evaluations, as
\* differences in integer arithmetic: x1*y2 - x1y2, the x_3 relation and the
\* y_3 relation.
CurveAddXY ==
    LET e == args.evaluations IN e.a_eval * e.d_eval - e.d_next_eval

CurveAddX3 ==
    LET e == args.evaluations
    IN  e.d_next_eval + e.b_eval * e.c_eval
          - e.a_next_eval * (1 + ecc_key.COEFF_D * e.d_next_eval * e.b_eval * e.c_eval)

CurveAddY3 ==
    LET e == args.evaluations
    IN  e.b_eval * e.d_eval + e.a_eval * e.c_eval
          - e.b_next_eval * (1 - ecc_key.COEFF_D * e.d_next_eval * e.b_eval * e.c_eval)

\* Curve addition scalar (C7): the call appends one scalar and one point, the
\* point being the q_variable_group_add commitment and the scalar
\*   c * [(x1*y2 - x1y2) + k * (x1y2 + y1*x2 - x3*(1 + d*x1y2*y1*x2))
\*        + k^2 * (y1*y2 + x1*x2 - y3*(1 - d*x1y2*y1*x2))],  k = c^2,
\* which is 0 for every c when the three relations hold.
CurveAddScalarFormula ==
    pc = "done" =>
        LET c == args.curve_add_separation_challenge
            k == c * c
        IN  /\ scalars = Append(args.before.scalars,
                                (c * (CurveAddXY + k * CurveAddX3 + k * k * CurveAddY3))
                                  % FieldP)
            /\ points = Append(args.before.points, ecc_key.q_variable_group_add[1])
            /\ (/\ CurveAddXY % FieldP = 0
                /\ CurveAddX3 % FieldP = 0
                /\ CurveAddY3 % FieldP = 0) => scalars[Len(scalars)] = 0

\* The addition law holds of nonzero coordinates with a nonzero d-term, under a
\* nonzero challenge, and the scalar appended to a non-empty list is 0.
CurveAddOnSatisfiedLaw ==
    /\ pc = "done"
    /\ args.curve_add_separation_challenge # 0
    /\ CurveAddXY % FieldP = 0 /\ CurveAddX3 % FieldP = 0 /\ CurveAddY3 % FieldP = 0
    /\ \A f \in DOMAIN args.evaluations : args.evaluations[f] # 0
    /\ args.before.scalars # <<>>
    /\ scalars = Append(args.before.scalars, 0)

====
